---------------------------- MODULE Spec2Model ----------------------------
(***************************************************************************)
(* A model of two subsystems of the rCore teaching kernel:                 *)
(*                                                                         *)
(*   - the synchronisation syscalls of os/src/syscall/sync.rs together     *)
(*     with the per-process deadlock-detector tables they maintain, and    *)
(*   - the directory operations of easy-fs/src/vfs.rs (create,             *)
(*     create_link, unlinkat, clear, write_at, read_at, ls, find).         *)
(*                                                                         *)
(* One syscall handler is one action: the kernel is not preempted while    *)
(* it runs a handler, so a handler runs from its entry to its return or    *)
(* to the point where the calling thread blocks inside a primitive.        *)
(***************************************************************************)
EXTENDS Integers, Sequences, FiniteSets, TLC

\* ------------------------------------------------------------------------
\* Bounds of the model
\* ------------------------------------------------------------------------

\* Number of threads of the process (tids 0 .. NThreads-1).
NThreads == 2
\* Number of mutexes mutex_create may create.
MaxMutex == 2
\* Number of semaphores semaphore_create may create.
MaxSem == 1
\* Largest res_count handed to semaphore_create, and cap on a semaphore's count.
MaxCount == 1
\* Cap on the magnitude of an entry of a detector table.
MaxTable == 1
\* Largest upper half (the bits 32 and above) of a res_count handed to
\* semaphore_create.
MaxHigh == 1
\* Number of condition variables condvar_create may create.
MaxCondvar == 1
\* Number of file names the calls create (names are 1 .. NNames).
NNames == 3
\* Largest number of files the image holds when the kernel mounts it
\* (their names are NNames + 1 .. NNames + MaxPreload).
MaxPreload == 3
\* Cap on the number of directory entries the calls add to the image's.
MaxEntries == 3
\* Highest inode id the inode bitmap can hand out.
MaxInode == 5
\* Number of distinct byte values written to files.
NBytes == 1
\* Processes: children one parent has at a time, pids, exit codes
\* (-1 .. MaxCode), user cells waitpid may be pointed at.
MaxChildren == 3
MaxPid == 4
MaxCode == 1
NPtrs == 2
\* Address space: pages a start or a len can span, highest port value.
NPages == 2
MaxPort == 9

\* ------------------------------------------------------------------------
\* Program constants
\* ------------------------------------------------------------------------

\* The sentinel 0xdead returned (negated) by a vetoed acquire.
DEAD == 57005
\* Size of a directory entry in bytes.
DIRENT_SZ == 32
\* Size of a block and of a DiskInode record in bytes.
BLOCK_SZ == 512
DISK_INODE_SZ == 128
INODE_DIRECT_COUNT == 28
INODE_INDIRECT1_COUNT == 128
\* DiskInode.links is a u16.
U16 == 65536
\* Size of a page in bytes.
PAGE_SIZE == 4096

Tids == 0 .. (NThreads - 1)

VARIABLES
    \* ---- ProcessControlBlockInner, synchronisation part
    mutex_list,             \* Seq: one record [locked, queue] per MutexBlocking
    semaphore_list,         \* Seq: one record [count, queue] per Semaphore
    mutex_available,        \* Seq of u32, one per mutex id
    mutex_allocated,        \* [tid -> Seq of u32]
    mutex_need,             \* [tid -> Seq of u32]
    sem_available,
    sem_allocated,
    sem_need,
    enable_deadlock_detect, \* BOOLEAN
    condvar_list,           \* Seq: one record [queue] per Condvar
    pcb_inner,              \* the thread that holds the PCB inner lock
                            \* (NThreads if no thread does)
    \* ---- threads
    waiting,                \* [tid -> <<"none",0>> | <<"mutex",id>> | <<"sem",id>>]
    \* ---- observers (not kernel state)
    mutex_holder,           \* Seq: the tid that owns each mutex, or NThreads if free
    sync_last,              \* the last handler that ran: [op, tid, id, done, val]
    unchecked,              \* TRUE once an acquire ran with detection disabled
    held_at_call            \* whether the PCB inner lock was held when the
                            \* last handler called into its primitive, or
                            \* returned without calling it

sync_vars == <<mutex_list, semaphore_list, mutex_available, mutex_allocated,
               mutex_need, sem_available, sem_allocated, sem_need,
               enable_deadlock_detect, waiting, mutex_holder,
               sync_last, unchecked, condvar_list, pcb_inner,
               held_at_call>>

VARIABLES
    \* ---- the filesystem as seen through the root directory's Inode
    fs,                     \* [size, ents, type, links, data, ninodes, used, status]
    \* ---- observer
    fs_last,                \* the last VFS call: [op, a, b, ret]
    \* ---- threads inside VFS calls
    vfs_pc,                 \* per thread: the call it is in, [op, a, ret]
    fs_mutex,               \* the thread that holds the filesystem mutex
    frame_mutex,            \* the thread that holds, from one step to the next,
                            \* the frame mutex of the directory's inode block
    \* ---- observer
    vfs_by                  \* the thread that took the last step of a call

fs_vars == <<fs, fs_last, vfs_pc, fs_mutex, frame_mutex, vfs_by>>

VARIABLES
    \* ---- a process (the parent) and the processes it forked
    children,               \* its children list: <<[pid, is_zombie, exit_code]>>
    task_info,              \* the pids that have an entry in TASK_INFO
    user_mem,               \* the i32 cells of its address space waitpid writes
    \* ---- observer
    proc_last               \* its last call: [op, pid, ptr, ret]

proc_vars == <<children, task_info, user_mem, proc_last>>

VARIABLES
    \* ---- the address space of a process
    mm,                     \* page number -> its permissions, {} if unmapped
    \* ---- observer
    mm_last                 \* its last call: [op, ret, perm]

mm_vars == <<mm, mm_last>>

vars == <<sync_vars, fs_vars, proc_vars, mm_vars>>

\* ------------------------------------------------------------------------
\* Helpers
\* ------------------------------------------------------------------------

NoWait == <<"none", 0>>
NoThread == NThreads

\* Vec::resize(n, 0)
Resize(v, n) ==
    IF n <= Len(v) THEN SubSeq(v, 1, n)
    ELSE v \o [i \in 1 .. (n - Len(v)) |-> 0]

Max(a, b) == IF a >= b THEN a ELSE b

\* v[id] = x for a 0-based id
SetAt(v, id, x) == [v EXCEPT ![id + 1] = x]
At(v, id) == v[id + 1]

\* The detector tables hold u32 values, and the kernel is built in release
\* mode, where += and -= wrap.  A u32 is represented by the i32 with the same
\* bit pattern: 2^32 - k (what 0 - k wraps to) is the integer -k.  Addition
\* and subtraction are then the integers' as long as no entry leaves
\* -2^31 .. 2^31 - 1, which the model's caps ensure; the order of two u32 is
\* LeqU32.
AddU32(a, b) == a + b
SubU32(a, b) == a - b
LeqU32(a, b) == IF (a >= 0) = (b >= 0) THEN a <= b ELSE a >= 0

Runnable(t) == waiting[t] = NoWait

\* ------------------------------------------------------------------------
\* Deadlock detector (os/src/task/process.rs: check_mutex_deadlock,
\* check_sem_deadlock), Banker's safety check over one resource class
\* ------------------------------------------------------------------------

\* Need[t][*] <= Work[*]
NeedLeqWork(need_row, work) ==
    \A r \in DOMAIN work : LeqU32(need_row[r], work[r])

\* Work += Allocation[t]
AddRow(work, alloc_row) ==
    [r \in DOMAIN work |-> AddU32(work[r], alloc_row[r])]

\* The threads with Finish[t] = true when no more progress is possible.
RECURSIVE BankerFinish(_, _, _, _)
BankerFinish(alloc, need, work, finish) ==
    LET cand == {t \in Tids \ finish : NeedLeqWork(need[t], work)}
    IN  IF cand = {} THEN finish
        ELSE LET t == CHOOSE x \in cand : \A y \in cand : x <= y
             IN  BankerFinish(alloc, need, AddRow(work, alloc[t]),
                              finish \cup {t})

\* TRUE iff the state is unsafe: some Finish[t] stays false.
check_deadlock(avail, alloc, need) ==
    BankerFinish(alloc, need, avail, {}) # Tids

\* ------------------------------------------------------------------------
\* Primitives (os/src/sync/mutex.rs, os/src/sync/semaphore.rs)
\* ------------------------------------------------------------------------

\* A usize is kept as its two 32-bit halves, [hi, lo]: the value is
\* hi * 2^32 + lo.  A semaphore's count is kept the same way, in the fields
\* high and count.
Usize(hi, lo) == [hi |-> hi, lo |-> lo]

\* x as u32: the low 32 bits
AsU32(x) == x.lo

NoneSlot ==
    [some |-> FALSE, locked |-> FALSE, count |-> 0, high |-> 0, queue |-> <<>>]
NewMutex ==
    [some |-> TRUE, locked |-> FALSE, count |-> 0, high |-> 0, queue |-> <<>>]
NewSemaphore(n) ==
    [some |-> TRUE, locked |-> FALSE, count |-> n.lo, high |-> n.hi,
     queue |-> <<>>]

\* The lowest index (0-based) of an empty slot, or the length of the list.
FreeSlot(list) ==
    LET empty == {i \in 1 .. Len(list) : ~list[i].some}
    IN  IF empty = {} THEN Len(list)
        ELSE (CHOOSE i \in empty : \A j \in empty : i <= j) - 1

\* list[id] = item, or push
PutSlot(list, id, item) ==
    IF id < Len(list) THEN SetAt(list, id, item) ELSE Append(list, item)

\* The handler op(id) called by thread t returned val.
Ret(op, t, id, val) ==
    [op |-> op, tid |-> t, id |-> id, done |-> TRUE, val |-> val]
\* The handler op(id) called by thread t has not returned: t is blocked
\* inside the primitive.
Blocked(op, t, id) ==
    [op |-> op, tid |-> t, id |-> id, done |-> FALSE, val |-> 0]

\* A table entry the model lets grow no further (a negative entry is a
\* wrapped one).
Small(x) == -MaxTable <= x /\ x <= MaxTable

\* The entries of thread t and resource id stay within the model's cap.
InBounds(avail, alloc, need, t, id) ==
    /\ Small(At(avail, id))
    /\ Small(At(alloc[t], id))
    /\ Small(At(need[t], id))

\* ------------------------------------------------------------------------
\* The PCB inner lock in the handlers of os/src/syscall/sync.rs
\* ------------------------------------------------------------------------

\* What a handler does with the PCB inner lock, in program order: "access"
\* is process.inner_exclusive_access(), "drop" the end of that borrow (a
\* drop(process_inner), or the end of the expression for a temporary),
\* "call" the call into the primitive, "return" a return that does not
\* call it.

\* Whether the lock is held when the handler reaches its "call" or
\* "return", held telling whether it is held before the first event.
RECURSIVE held_at(_, _)
held_at(events, held) ==
    IF events = <<>> THEN held
    ELSE IF Head(events) \in {"call", "return"} THEN held
    ELSE held_at(Tail(events), Head(events) = "access")

\* sys_mutex_lock: lines 83, 92, 94 (a temporary in the condition), 95 | 98
mutex_lock_events(vetoed) ==
    <<"access", "drop", "access", "drop",
      IF vetoed THEN "return" ELSE "call">>

\* sys_mutex_unlock: lines 116, 121, 123
mutex_unlock_events == <<"access", "drop", "call">>

\* sys_semaphore_up with the drop(process_inner) left out.
semaphore_up_events_no_drop == <<"access", "call">>

\* sys_semaphore_up: lines 183, 189, 190
semaphore_up_events == <<"access", "drop", "call">>

\* sys_semaphore_down: lines 207, 223, 224 (temporary), 225 | 227
semaphore_down_events(vetoed) ==
    <<"access", "drop", "access", "drop",
      IF vetoed THEN "return" ELSE "call">>

\* sys_condvar_signal: lines 277, 279, 280
condvar_signal_events == <<"access", "drop", "call">>

\* sys_condvar_wait: lines 297, 300, 301
condvar_wait_events == <<"access", "drop", "call">>

\* The handler of thread t ran the events; blocks tells whether t is then
\* blocked inside the primitive (a handler that returns ends every borrow).
InnerLock(t, events, blocks) ==
    /\ held_at_call' = held_at(events, FALSE)
    /\ pcb_inner' = IF held_at(events, FALSE) /\ blocks THEN t ELSE NoThread

\* ------------------------------------------------------------------------
\* Syscall handlers of os/src/syscall/sync.rs
\* ------------------------------------------------------------------------

\* Every row of a table resized to n entries and entry id zeroed.
ResizeRows(tbl, n, id) ==
    [i \in DOMAIN tbl |-> SetAt(Resize(tbl[i], n), id, 0)]

sys_mutex_create(t) ==
    /\ Runnable(t)
    /\ Len(mutex_list) < MaxMutex
    /\ LET id == FreeSlot(mutex_list)
           res_num == Len(mutex_available)
       IN  /\ mutex_list' = PutSlot(mutex_list, id, NewMutex)
           /\ mutex_need' = ResizeRows(mutex_need, Max(res_num, id + 1), id)
           /\ mutex_allocated' =
                  ResizeRows(mutex_allocated, Max(res_num, id + 1), id)
           /\ mutex_available' =
                  SetAt(Resize(mutex_available, Max(res_num, id + 1)), id, 1)
           /\ mutex_holder' = PutSlot(mutex_holder, id, NoThread)
           /\ sync_last' = Ret("mutex_create", t, id, id)
    /\ UNCHANGED <<semaphore_list, sem_available, sem_allocated, sem_need,
                   enable_deadlock_detect, waiting, unchecked>>
    /\ UNCHANGED <<condvar_list, pcb_inner, held_at_call>>

\* acquire_tables with the Need increment of the else branch left out.
acquire_tables_no_need(avail, alloc, need, t, id) ==
    IF At(avail, id) # 0
    THEN <<SetAt(avail, id, SubU32(At(avail, id), 1)),
           [alloc EXCEPT ![t] = SetAt(@, id, AddU32(At(@, id), 1))],
           need>>
    ELSE <<avail, alloc, need>>

\* The table update at the head of an acquire: <<available, allocated, need>>.
acquire_tables(avail, alloc, need, t, id) ==
    IF At(avail, id) # 0
    THEN <<SetAt(avail, id, SubU32(At(avail, id), 1)),
           [alloc EXCEPT ![t] = SetAt(@, id, AddU32(At(@, id), 1))],
           need>>
    ELSE <<avail,
           alloc,
           [need EXCEPT ![t] = SetAt(@, id, AddU32(At(@, id), 1))]>>

\* release_tables with the Allocation decrement applied to thread 0's row
\* instead of the caller's.
release_tables_row0(avail, alloc, t, id) ==
    <<SetAt(avail, id, AddU32(At(avail, id), 1)),
      [alloc EXCEPT ![0] = SetAt(@, id, SubU32(At(@, id), 1))]>>

\* The table update at the head of a release: <<available, allocated>>.
release_tables(avail, alloc, t, id) ==
    <<SetAt(avail, id, AddU32(At(avail, id), 1)),
      [alloc EXCEPT ![t] = SetAt(@, id, SubU32(At(@, id), 1))]>>

\* lock_vetoed that does not look at enable_deadlock_detect.
lock_vetoed_always(tbl) == check_deadlock(tbl[1], tbl[2], tbl[3])

\* Whether the acquire is vetoed, given the tables after acquire_tables.
lock_vetoed(tbl) ==
    enable_deadlock_detect /\ check_deadlock(tbl[1], tbl[2], tbl[3])

\* MutexBlocking::lock by thread t: the mutex afterwards.
mutex_lock(mu, t) ==
    IF mu.locked THEN [mu EXCEPT !.queue = Append(@, t)]
    ELSE [mu EXCEPT !.locked = TRUE]

\* MutexBlocking::unlock: the mutex afterwards (the head of the queue, if
\* any, becomes the owner; locked stays TRUE).
mutex_unlock(mu) ==
    IF mu.queue # <<>> THEN [mu EXCEPT !.queue = Tail(@)]
    ELSE [mu EXCEPT !.locked = FALSE]

sys_mutex_lock(t, m) ==
    /\ Runnable(t)
    /\ m < Len(mutex_list)
    /\ At(mutex_list, m).some
    /\ LET tbl == acquire_tables(mutex_available, mutex_allocated,
                                 mutex_need, t, m)
           mu == At(mutex_list, m)
       IN  /\ InBounds(tbl[1], tbl[2], tbl[3], t, m)
           /\ mutex_available' = tbl[1]
           /\ mutex_allocated' = tbl[2]
           /\ mutex_need' = tbl[3]
           /\ IF lock_vetoed(tbl)
              THEN /\ sync_last' = Ret("mutex_lock", t, m, -DEAD)
                   /\ UNCHANGED <<mutex_list, waiting, mutex_holder>>
              ELSE /\ mutex_list' = SetAt(mutex_list, m, mutex_lock(mu, t))
                   /\ IF mu.locked
                      THEN /\ waiting' = [waiting EXCEPT ![t] = <<"mutex", m>>]
                           /\ sync_last' = Blocked("mutex_lock", t, m)
                           /\ UNCHANGED mutex_holder
                      ELSE /\ sync_last' = Ret("mutex_lock", t, m, 0)
                           /\ mutex_holder' = SetAt(mutex_holder, m, t)
                           /\ UNCHANGED waiting
           /\ InnerLock(t, mutex_lock_events(lock_vetoed(tbl)),
                        ~lock_vetoed(tbl) /\ mu.locked)
    /\ unchecked' = (unchecked \/ ~enable_deadlock_detect)
    /\ UNCHANGED condvar_list
    /\ UNCHANGED <<semaphore_list, sem_available, sem_allocated, sem_need,
                   enable_deadlock_detect>>

sys_mutex_unlock(t, m) ==
    /\ Runnable(t)
    /\ m < Len(mutex_list)
    /\ At(mutex_list, m).some
    /\ At(mutex_holder, m) = t
    /\ LET tbl == release_tables(mutex_available, mutex_allocated, t, m)
           mu == At(mutex_list, m)
       IN  /\ InBounds(tbl[1], tbl[2], mutex_need, t, m)
           /\ mutex_available' = tbl[1]
           /\ mutex_allocated' = tbl[2]
           /\ mutex_list' = SetAt(mutex_list, m, mutex_unlock(mu))
           /\ IF mu.queue # <<>>
              THEN LET w == Head(mu.queue)
                   IN  /\ waiting' = [waiting EXCEPT ![w] = NoWait]
                       /\ sync_last' = Ret("mutex_unlock", t, m, 0)
                       /\ mutex_holder' = SetAt(mutex_holder, m, w)
              ELSE /\ sync_last' = Ret("mutex_unlock", t, m, 0)
                   /\ mutex_holder' = SetAt(mutex_holder, m, NoThread)
                   /\ UNCHANGED waiting
    /\ InnerLock(t, mutex_unlock_events, FALSE)
    /\ UNCHANGED condvar_list
    /\ UNCHANGED <<mutex_need, semaphore_list, sem_available, sem_allocated,
                   sem_need, enable_deadlock_detect, unchecked>>

sys_semaphore_create(t, res_count) ==
    /\ Runnable(t)
    /\ Len(semaphore_list) < MaxSem
    /\ LET id == FreeSlot(semaphore_list)
           res_num == Len(sem_available)
       IN  /\ semaphore_list' =
                  PutSlot(semaphore_list, id, NewSemaphore(res_count))
           /\ sem_need' = ResizeRows(sem_need, Max(res_num, id + 1), id)
           /\ sem_allocated' =
                  ResizeRows(sem_allocated, Max(res_num, id + 1), id)
           /\ sem_available' =
                  SetAt(Resize(sem_available, Max(res_num, id + 1)), id,
                        AsU32(res_count))
           /\ sync_last' = Ret("semaphore_create", t, id, id)
    /\ UNCHANGED <<condvar_list, pcb_inner, held_at_call>>
    /\ UNCHANGED <<mutex_list, mutex_available, mutex_allocated, mutex_need,
                   mutex_holder, enable_deadlock_detect, waiting, unchecked>>

\* Semaphore::down by thread t: the semaphore afterwards.
semaphore_down(sem, t) ==
    IF sem.count > 0 THEN [sem EXCEPT !.count = @ - 1]
    ELSE [sem EXCEPT !.queue = Append(@, t)]

\* Semaphore::up: the semaphore afterwards (a waiter takes the unit).
semaphore_up(sem) ==
    IF sem.queue # <<>> THEN [sem EXCEPT !.queue = Tail(@)]
    ELSE [sem EXCEPT !.count = @ + 1]

\* (The calls on a semaphore of 2^32 units or more are not explored.)
sys_semaphore_up(t, s) ==
    /\ Runnable(t)
    /\ s < Len(semaphore_list)
    /\ At(semaphore_list, s).some
    /\ At(semaphore_list, s).high = 0
    /\ LET tbl == release_tables(sem_available, sem_allocated, t, s)
           sem == At(semaphore_list, s)
       IN  /\ InBounds(tbl[1], tbl[2], sem_need, t, s)
           /\ sem.queue = <<>> => sem.count < MaxCount
           /\ sem_available' = tbl[1]
           /\ sem_allocated' = tbl[2]
           /\ semaphore_list' = SetAt(semaphore_list, s, semaphore_up(sem))
           /\ IF sem.queue # <<>>
              THEN LET w == Head(sem.queue)
                   IN  /\ waiting' = [waiting EXCEPT ![w] = NoWait]
                       /\ sync_last' = Ret("semaphore_up", t, s, 0)
              ELSE /\ sync_last' = Ret("semaphore_up", t, s, 0)
                   /\ UNCHANGED waiting
    /\ InnerLock(t, semaphore_up_events, FALSE)
    /\ UNCHANGED condvar_list
    /\ UNCHANGED <<sem_need, mutex_list, mutex_available, mutex_allocated,
                   mutex_need, mutex_holder, enable_deadlock_detect,
                   unchecked>>

\* (The calls on a semaphore of 2^32 units or more are not explored.)
sys_semaphore_down(t, s) ==
    /\ Runnable(t)
    /\ s < Len(semaphore_list)
    /\ At(semaphore_list, s).some
    /\ At(semaphore_list, s).high = 0
    /\ LET tbl == acquire_tables(sem_available, sem_allocated, sem_need, t, s)
           sem == At(semaphore_list, s)
       IN  /\ InBounds(tbl[1], tbl[2], tbl[3], t, s)
           /\ sem_available' = tbl[1]
           /\ sem_allocated' = tbl[2]
           /\ sem_need' = tbl[3]
           /\ IF lock_vetoed(tbl)
              THEN /\ sync_last' = Ret("semaphore_down", t, s, -DEAD)
                   /\ UNCHANGED <<semaphore_list, waiting>>
              ELSE /\ semaphore_list' =
                          SetAt(semaphore_list, s, semaphore_down(sem, t))
                   /\ IF sem.count > 0
                      THEN /\ sync_last' = Ret("semaphore_down", t, s, 0)
                           /\ UNCHANGED waiting
                      ELSE /\ waiting' = [waiting EXCEPT ![t] = <<"sem", s>>]
                           /\ sync_last' = Blocked("semaphore_down", t, s)
           /\ InnerLock(t, semaphore_down_events(lock_vetoed(tbl)),
                        ~lock_vetoed(tbl) /\ sem.count = 0)
    /\ UNCHANGED condvar_list
    /\ unchecked' = (unchecked \/ ~enable_deadlock_detect)
    /\ UNCHANGED <<mutex_list, mutex_available, mutex_allocated, mutex_need,
                   mutex_holder, enable_deadlock_detect>>

\* sys_enable_deadlock_detect without the test enabled > 1.
sys_enable_deadlock_detect_unchecked(t, enabled) ==
    /\ Runnable(t)
    /\ enable_deadlock_detect' = (enabled = 1)
    /\ sync_last' = Ret("enable_deadlock_detect", t, enabled, 0)
    /\ UNCHANGED <<mutex_list, semaphore_list, mutex_available,
                   mutex_allocated, mutex_need, sem_available, sem_allocated,
                   sem_need, waiting, mutex_holder, unchecked,
                   condvar_list, pcb_inner, held_at_call>>

sys_enable_deadlock_detect(t, enabled) ==
    /\ Runnable(t)
    /\ IF enabled > 1
       THEN /\ sync_last' = Ret("enable_deadlock_detect", t, enabled, -1)
            /\ UNCHANGED enable_deadlock_detect
       ELSE /\ enable_deadlock_detect' = (enabled = 1)
            /\ sync_last' = Ret("enable_deadlock_detect", t, enabled, 0)
    /\ UNCHANGED <<mutex_list, semaphore_list, mutex_available,
                   mutex_allocated, mutex_need, sem_available, sem_allocated,
                   sem_need, waiting, mutex_holder, unchecked,
                   condvar_list, pcb_inner, held_at_call>>

\* ---- condition variables (os/src/sync/condvar.rs)

\* The tables, the semaphores and the detection flag, which the condvar
\* handlers leave alone.
acct_vars == <<mutex_available, mutex_allocated, mutex_need, semaphore_list,
               sem_available, sem_allocated, sem_need,
               enable_deadlock_detect, unchecked>>

NewCondvar ==
    [some |-> TRUE, locked |-> FALSE, count |-> 0, high |-> 0, queue |-> <<>>]

\* Condvar::wait(mutex) by thread t up to the point where t blocks: the
\* condvar afterwards (the waiter remembers the mutex it has to take again).
condvar_wait(cv, t, m) ==
    [cv EXCEPT !.queue = Append(@, [tid |-> t, mutex |-> m])]

\* Condvar::signal: the condvar afterwards.
condvar_signal(cv) ==
    IF cv.queue # <<>> THEN [cv EXCEPT !.queue = Tail(@)] ELSE cv

sys_condvar_create(t) ==
    /\ Runnable(t)
    /\ Len(condvar_list) < MaxCondvar
    /\ LET id == FreeSlot(condvar_list)
       IN  /\ condvar_list' = PutSlot(condvar_list, id, NewCondvar)
           /\ sync_last' = Ret("condvar_create", t, id, id)
    /\ UNCHANGED <<mutex_list, mutex_holder, waiting, pcb_inner,
                   held_at_call>>
    /\ UNCHANGED acct_vars

\* The woken thread does not return yet: it has to take the mutex again.
sys_condvar_signal(t, c) ==
    /\ Runnable(t)
    /\ c < Len(condvar_list)
    /\ At(condvar_list, c).some
    /\ LET cv == At(condvar_list, c)
       IN  /\ condvar_list' = SetAt(condvar_list, c, condvar_signal(cv))
           /\ IF cv.queue # <<>>
              THEN waiting' = [waiting EXCEPT ![Head(cv.queue).tid] =
                                  <<"relock", Head(cv.queue).mutex>>]
              ELSE UNCHANGED waiting
    /\ sync_last' = Ret("condvar_signal", t, c, 0)
    /\ InnerLock(t, condvar_signal_events, FALSE)
    /\ UNCHANGED <<mutex_list, mutex_holder>>
    /\ UNCHANGED acct_vars

\* The caller holds the mutex (MutexBlocking::unlock asserts that the mutex
\* is locked).  The tables are not touched.
sys_condvar_wait(t, c, m) ==
    /\ Runnable(t)
    /\ c < Len(condvar_list)
    /\ At(condvar_list, c).some
    /\ m < Len(mutex_list)
    /\ At(mutex_list, m).some
    /\ At(mutex_holder, m) = t
    /\ LET cv == At(condvar_list, c)
           mu == At(mutex_list, m)
       IN  /\ mutex_list' = SetAt(mutex_list, m, mutex_unlock(mu))
           /\ condvar_list' = SetAt(condvar_list, c, condvar_wait(cv, t, m))
           /\ IF mu.queue # <<>>
              THEN /\ waiting' = [waiting EXCEPT ![Head(mu.queue)] = NoWait,
                                                ![t] = <<"condvar", c>>]
                   /\ mutex_holder' = SetAt(mutex_holder, m, Head(mu.queue))
              ELSE /\ waiting' = [waiting EXCEPT ![t] = <<"condvar", c>>]
                   /\ mutex_holder' = SetAt(mutex_holder, m, NoThread)
    /\ sync_last' = Blocked("condvar_wait", t, c)
    /\ InnerLock(t, condvar_wait_events, TRUE)
    /\ UNCHANGED acct_vars

\* The end of Condvar::wait: the signalled thread runs mutex.lock(), and
\* sys_condvar_wait returns 0 once it has the mutex.
condvar_relock(t) ==
    /\ waiting[t][1] = "relock"
    /\ LET m == waiting[t][2]
           mu == At(mutex_list, m)
       IN  /\ mutex_list' = SetAt(mutex_list, m, mutex_lock(mu, t))
           /\ IF mu.locked
              THEN /\ waiting' = [waiting EXCEPT ![t] = <<"mutex", m>>]
                   /\ sync_last' = Blocked("condvar_wake", t, m)
                   /\ UNCHANGED mutex_holder
              ELSE /\ waiting' = [waiting EXCEPT ![t] = NoWait]
                   /\ sync_last' = Ret("condvar_wake", t, m, 0)
                   /\ mutex_holder' = SetAt(mutex_holder, m, t)
    /\ UNCHANGED <<condvar_list, pcb_inner, held_at_call>>
    /\ UNCHANGED acct_vars

\* ------------------------------------------------------------------------
\* easy-fs: the root directory (inode 0) and the files under it
\*
\*   fs.size     DiskInode.size of the directory, in bytes
\*   fs.ents     the directory's payload: the DirEntry records
\*               [name, inode_id] in slots 0 .. size/32 - 1
\*   fs.links    DiskInode.links of every inode id
\*   fs.data     the bytes of every file inode (DiskInode.size is their number)
\*   fs.ninodes  the inode bitmap: the ids 0 .. ninodes-1 are allocated
\*               (no VFS call frees an inode id)
\*   fs.status   "ok", or how the kernel stopped: "hung" (a thread spins on
\*               a frame mutex it holds), "panic"
\* ------------------------------------------------------------------------

Names == 1 .. NNames
InodeIds == 0 .. MaxInode
Bufs == {<<b>> : b \in 1 .. NBytes}

\* EasyFileSystem::get_disk_inode_pos: <<block (relative to the inode
\* area), offset in the block>>
get_disk_inode_pos(inode_id) ==
    LET per_block == BLOCK_SZ \div DISK_INODE_SZ
    IN  <<inode_id \div per_block, (inode_id % per_block) * DISK_INODE_SZ>>

\* The directory is the root: inode 0.
RootPos == get_disk_inode_pos(0)

DirEntry(name, inode_id) == [name |-> name, inode_id |-> inode_id]

MinOf(S) == CHOOSE x \in S : \A y \in S : x <= y

\* Inode::find_inode_id: None is {}, Some(id) is {id}
find_inode_id(d, name) ==
    LET file_count == d.size \div DIRENT_SZ
        hits == {i \in 1 .. file_count : d.ents[i].name = name}
    IN  IF hits = {} THEN {} ELSE {d.ents[MinOf(hits)].inode_id}

\* Inode::find: the handle (block_id, block_offset) of the entry's inode
find(d, name) ==
    {get_disk_inode_pos(id) : id \in find_inode_id(d, name)}

\* Inode::ls
ls(d) ==
    LET file_count == d.size \div DIRENT_SZ
    IN  [i \in 1 .. file_count |-> d.ents[i].name]

\* DiskInode::write_at(offset, bytes) on a payload already grown to hold it
WriteBytes(payload, offset, bytes) ==
    [i \in 1 .. Max(Len(payload), offset + Len(bytes)) |->
        IF i > offset /\ i <= offset + Len(bytes) THEN bytes[i - offset]
        ELSE IF i <= Len(payload) THEN payload[i]
        ELSE 0]

\* DiskInode::total_blocks(size): the data blocks of size bytes and the
\* indirect blocks that reach them.
total_blocks(size) ==
    LET data_blocks == (size + BLOCK_SZ - 1) \div BLOCK_SZ
        over1 == data_blocks - INODE_DIRECT_COUNT
        over2 == over1 - INODE_INDIRECT1_COUNT
    IN  data_blocks
          + (IF over1 > 0 THEN 1 ELSE 0)
          + (IF over2 > 0
             THEN 1 + (over2 + INODE_INDIRECT1_COUNT - 1) \div INODE_INDIRECT1_COUNT
             ELSE 0)

\* DiskInode::blocks_num_needed(new_size) of an inode of the given size
blocks_num_needed(size, new_size) == total_blocks(new_size) - total_blocks(size)

\* Inode::increase_size: the number of data blocks it takes from the data
\* bitmap (fs.alloc_data) for an inode of the given size.
increase_size(size, new_size) ==
    IF new_size < size THEN 0 ELSE blocks_num_needed(size, new_size)

\* AppendEntry that writes e to slot 0 and moves the entries up by one.
PrependEntry(d, e) ==
    LET file_count == d.size \div DIRENT_SZ
        new_size == (file_count + 1) * DIRENT_SZ
    IN  [d EXCEPT !.size = new_size,
                  !.used = @ + increase_size(d.size, new_size),
                  !.ents = <<e>> \o SubSeq(d.ents, 1, file_count)]

\* The directory with DirEntry e written to slot k (0-based) and its size
\* set to new_size: increase_size followed by write_at(k * DIRENT_SZ).
AppendEntry(d, e) ==
    LET file_count == d.size \div DIRENT_SZ
        new_size == (file_count + 1) * DIRENT_SZ
    IN  [d EXCEPT !.size = IF new_size < d.size THEN d.size ELSE new_size,
                  !.used = @ + increase_size(d.size, new_size),
                  !.ents = SubSeq(d.ents, 1, file_count) \o <<e>>]

\* create that takes the inode from the bitmap before it looks the name up.
create_alloc_first(d, name) ==
    LET new_inode_id == d.ninodes
        d1 == [d EXCEPT !.ninodes = @ + 1]
    IN  IF find_inode_id(d, name) # {}
        THEN [st |-> d1, ret |-> {}]
        ELSE [st |-> AppendEntry([d1 EXCEPT !.type[new_inode_id] = "File",
                                            !.links[new_inode_id] = 1,
                                            !.data[new_inode_id] = <<>>],
                                 DirEntry(name, new_inode_id)),
              ret |-> {new_inode_id}]

\* Inode::create: [st, ret], ret = {} for None, {id} for the new inode
create(d, name) ==
    IF find_inode_id(d, name) # {}
    THEN [st |-> d, ret |-> {}]
    ELSE LET new_inode_id == d.ninodes
             d1 == [d EXCEPT !.ninodes = @ + 1,
                             !.type[new_inode_id] = "File",
                             !.links[new_inode_id] = 1,
                             !.data[new_inode_id] = <<>>]
         IN  [st |-> AppendEntry(d1, DirEntry(name, new_inode_id)),
              ret |-> {new_inode_id}]

\* Inode::write_at on the inode id
write_at(d, id, offset, buf) ==
    [st |-> [d EXCEPT !.used = @ + increase_size(Len(d.data[id]),
                                                 offset + Len(buf)),
                      !.data[id] = WriteBytes(@, offset, buf)],
     ret |-> Len(buf)]

\* Inode::read_at on the inode id: the bytes read
read_at(d, id, offset, len) ==
    LET end == IF offset + len < Len(d.data[id]) THEN offset + len
               ELSE Len(d.data[id])
    IN  SubSeq(d.data[id], offset + 1, end)

\* Inode::clear on the inode id: clear_size, and every block it returns
\* given back to the data bitmap (fs.dealloc_data).
clear(d, id) ==
    [d EXCEPT !.used = @ - total_blocks(Len(d.data[id])),
              !.data[id] = <<>>]

\* create_link without the increment of links.
create_link_no_count(d, src, new_name) ==
    LET found == find_inode_id(d, src)
    IN  IF found = {}
        THEN [st |-> d, ret |-> -1]
        ELSE [st |-> AppendEntry(d, DirEntry(new_name, MinOf(found))), ret |-> 0]

\* Inode::create_link: [st, ret]
create_link(d, src, new_name) ==
    LET found == find_inode_id(d, src)
    IN  IF found = {}
        THEN [st |-> d, ret |-> -1]
        ELSE LET id == MinOf(found)
                 d1 == [d EXCEPT !.links[id] = (@ + 1) % U16]
             IN  [st |-> AppendEntry(d1, DirEntry(new_name, id)), ret |-> 0]

\* compact as a swap-with-last: the last entry copied over the first entry
\* called path.
compact_swap(d, path) ==
    LET num_entries == d.size \div DIRENT_SZ
        hits == {i \in 1 .. num_entries : d.ents[i].name = path}
        k == IF hits = {} THEN num_entries ELSE CHOOSE i \in hits : \A j \in hits : i <= j
    IN  [st |-> [d EXCEPT !.ents = [i \in 1 .. (num_entries - 1) |->
                                       IF i = k THEN d.ents[num_entries]
                                       ELSE d.ents[i]],
                          !.size = @ - DIRENT_SZ],
         ret |-> 0]

\* The second half of Inode::unlinkat: the directory rewritten without the
\* entries called path.  new_entries[i] is read for every i < num_entries - 1:
\* the kernel panics (index out of bounds) at the first i it does not have,
\* after it has rewritten the slots before it.  In a directory that has
\* become empty, num_entries - 1 underflows: the kernel panics on the
\* subtraction, or (wrapped) on new_entries[0], before it writes anything.
compact(d, path) ==
    LET num_entries == d.size \div DIRENT_SZ
        live == SubSeq(d.ents, 1, num_entries)
        new_entries == SelectSeq(live, LAMBDA e : e.name # path)
        k == Len(new_entries)
    IN  IF num_entries = 0
        THEN [st |-> [d EXCEPT !.status = "panic"], ret |-> 0]
        ELSE IF k < num_entries - 1
        THEN [st |-> [d EXCEPT !.ents = new_entries
                                          \o SubSeq(live, k + 1, num_entries),
                               !.status = "panic"],
              ret |-> 0]
        ELSE [st |-> [d EXCEPT !.ents = SubSeq(new_entries, 1, num_entries - 1),
                               !.size = @ - DIRENT_SZ],
              ret |-> 0]

\* Inode::unlinkat up to its compaction: [st, ret, flag_to_erase], that is
\* the lookup and the decrement of links in the first closure and, when
\* links reached 0, find(path).unwrap().clear(); st.status # "ok" when the
\* call does not return.
\* The first closure runs with the frame mutex of the directory's DiskInode
\* block held and locks the frame of the target's block: when both inodes
\* lie in one block, the (non-reentrant) spin mutex is requested by its
\* holder, and the kernel spins there.
unlink_first(d, path) ==
    LET found == find_inode_id(d, path)
    IN  IF found = {}
        THEN [st |-> d, ret |-> -1, flag_to_erase |-> FALSE]
        ELSE LET id == MinOf(found)
             IN  IF get_disk_inode_pos(id)[1] = RootPos[1]
                 THEN [st |-> [d EXCEPT !.status = "hung"], ret |-> 0,
                       flag_to_erase |-> FALSE]
                 ELSE LET d1 == [d EXCEPT !.links[id] = (@ - 1) % U16]
                          flag_to_erase == d1.links[id] = 0
                          d2 == IF flag_to_erase
                                THEN clear(d1, MinOf(find_inode_id(d1, path)))
                                ELSE d1
                      IN  [st |-> d2, ret |-> 0,
                           flag_to_erase |-> flag_to_erase]

\* Inode::unlinkat: [st, ret], the whole call run without interruption.
unlinkat(d, path) ==
    LET r == unlink_first(d, path)
    IN  IF r.ret = -1 \/ r.st.status # "ok"
        THEN [st |-> r.st, ret |-> r.ret]
        ELSE compact(r.st, path)

\* ---- the VFS calls as steps of the kernel

FsCall(op, a, b, r) ==
    [op |-> op, a |-> a, b |-> b, done |-> r.st.status = "ok", ret |-> r.ret]

\* The number of entries that calls added (the image's files have other names).
Added(d) ==
    Cardinality({i \in 1 .. (d.size \div DIRENT_SZ) : d.ents[i].name \in Names})

Create(name) ==
    /\ fs.status = "ok"
    /\ find_inode_id(fs, name) = {} =>
           /\ Added(fs) < MaxEntries
           /\ fs.ninodes <= MaxInode
    /\ LET r == create(fs, name)
       IN  /\ fs' = r.st
           /\ fs_last' = FsCall("create", name, 0,
                                [st |-> r.st,
                                 ret |-> IF r.ret = {} THEN -1
                                         ELSE MinOf(r.ret)])

Link(src, new_name) ==
    /\ fs.status = "ok"
    /\ find_inode_id(fs, src) # {} => Added(fs) < MaxEntries
    /\ LET r == create_link(fs, src, new_name)
       IN  /\ fs' = r.st
           /\ fs_last' = FsCall("link", src, new_name, r)

\* The (0-based) slot of the first entry called name, or the number of
\* entries when there is none.
SlotOf(d, name) ==
    LET file_count == d.size \div DIRENT_SZ
        hits == {i \in 1 .. file_count : d.ents[i].name = name}
    IN  IF hits = {} THEN file_count ELSE MinOf(hits) - 1

\* fs_last.b is the slot the name was found in.
Unlink(name) ==
    /\ fs.status = "ok"
    /\ LET r == unlinkat(fs, name)
       IN  /\ fs' = r.st
           /\ fs_last' = FsCall("unlink", name, SlotOf(fs, name), r)

\* find(name) and write_at(0, buf) on the handle found
Write(name, buf) ==
    /\ fs.status = "ok"
    /\ find_inode_id(fs, name) # {}
    /\ LET r == write_at(fs, MinOf(find_inode_id(fs, name)), 0, buf)
       IN  /\ fs' = r.st
           /\ fs_last' = FsCall("write", name, 0, r)

\* The filesystem of an image on which k files were created (and nothing
\* else done): file i has inode id i and name NNames + i.  k = 0 is a fresh
\* filesystem, whose root directory is empty and is the only inode.
Image(k) ==
    [size |-> k * DIRENT_SZ,
     ents |-> [i \in 1 .. k |-> DirEntry(NNames + i, i)],
     type |-> [i \in InodeIds |-> IF i = 0 THEN "Directory"
                                  ELSE IF i <= k THEN "File" ELSE "none"],
     links |-> [i \in InodeIds |-> IF i <= k THEN 1 ELSE 0],
     data |-> [i \in InodeIds |-> <<>>],
     ninodes |-> k + 1,
     used |-> total_blocks(k * DIRENT_SZ),
     status |-> "ok"]

NoFsCall == [op |-> "none", a |-> 0, b |-> 0, done |-> TRUE, ret |-> 0]

\* No thread is inside a VFS call.
Idle == [op |-> "idle", a |-> 0, ret |-> 0]

VfsIdle ==
    /\ vfs_pc = [t \in Tids |-> Idle]
    /\ fs_mutex = NoThread
    /\ frame_mutex = NoThread
    /\ vfs_by = NoThread

FsInit ==
    /\ \E k \in 0 .. MaxPreload : fs = Image(k)
    /\ fs_last = NoFsCall
    /\ VfsIdle

\* The VFS calls made one after the other, each run to its end.
FsNext ==
    /\ \/ \E name \in Names : Create(name)
       \/ \E src \in Names, new_name \in Names : Link(src, new_name)
       \/ \E name \in Names : Unlink(name)
       \/ \E name \in Names, buf \in Bufs : Write(name, buf)
    /\ UNCHANGED <<vfs_pc, fs_mutex, frame_mutex, vfs_by>>
    /\ UNCHANGED <<sync_vars, proc_vars, mm_vars>>

\* ---- the VFS calls made by several threads on one CPU.  A thread runs
\* until its call returns or performs block-device I/O it has to wait for
\* (block_cache_sync_all, which writes the dirty frames): there another
\* thread may be scheduled.  self.fs.lock() and the frame mutexes are spin
\* mutexes: a thread that finds one held makes no progress until its holder
\* has released it.  The threads create, link, list and unlink; the files
\* stay empty.

\* A call of thread t that takes the filesystem mutex and then the frame of
\* the directory's DiskInode block (create, create_link, ls: self.fs.lock()
\* followed by read_disk_inode) while another thread holds that frame: t
\* has the filesystem mutex and spins on the frame mutex.
SpinOnFrame(t) ==
    /\ vfs_pc' = [vfs_pc EXCEPT ![t] =
                     [op |-> "lock_frame", a |-> 0, ret |-> 0]]
    /\ fs_mutex' = t
    /\ vfs_by' = t
    /\ UNCHANGED <<fs, fs_last, frame_mutex>>

\* create: the whole call up to block_cache_sync_all, the filesystem mutex
\* taken at its start (kept while the frames are written, when an inode was
\* made).  The thread is descheduled in block_cache_sync_all either before
\* the (dirty) frame of the directory's inode block is written ("create")
\* or after it ("create_tail").
VfsCreate(t, name) ==
    /\ fs.status = "ok" /\ vfs_pc[t] = Idle
    /\ fs_mutex = NoThread
    /\ find_inode_id(fs, name) = {} =>
           /\ Added(fs) < MaxEntries
           /\ fs.ninodes <= MaxInode
    /\ IF frame_mutex # NoThread
       THEN SpinOnFrame(t)
       ELSE /\ LET r == create(fs, name)
               IN  /\ fs' = r.st
                   /\ IF r.ret = {}
                      THEN /\ fs_last' = FsCall("create", name, 0,
                                                [st |-> r.st, ret |-> -1])
                           /\ UNCHANGED <<vfs_pc, fs_mutex>>
                      ELSE /\ \E at \in {"create", "create_tail"} :
                                  vfs_pc' = [vfs_pc EXCEPT ![t] =
                                                [op |-> at, a |-> name,
                                                 ret |-> MinOf(r.ret)]]
                           /\ fs_mutex' = t
                           /\ UNCHANGED fs_last
            /\ vfs_by' = t
            /\ UNCHANGED frame_mutex

\* The end of create: the remaining frames are written (the one of the
\* directory's inode block under its frame mutex), the call returns and
\* drops the filesystem mutex.
VfsReturn(t) ==
    /\ fs.status = "ok"
    /\ vfs_pc[t].op \in {"create", "create_tail"}
    /\ vfs_pc[t].op = "create" => frame_mutex = NoThread
    /\ fs_last' = FsCall("create", vfs_pc[t].a, 0,
                         [st |-> fs, ret |-> vfs_pc[t].ret])
    /\ vfs_pc' = [vfs_pc EXCEPT ![t] = Idle]
    /\ fs_mutex' = NoThread
    /\ vfs_by' = t
    /\ UNCHANGED <<fs, frame_mutex>>

\* create_link: the whole call, under the filesystem mutex.
VfsLink(t, src, new_name) ==
    /\ fs.status = "ok" /\ vfs_pc[t] = Idle
    /\ fs_mutex = NoThread
    /\ find_inode_id(fs, src) # {} => Added(fs) < MaxEntries
    /\ IF frame_mutex # NoThread
       THEN SpinOnFrame(t)
       ELSE /\ LET r == create_link(fs, src, new_name)
               IN  /\ fs' = r.st
                   /\ fs_last' = FsCall("link", src, new_name, r)
            /\ vfs_by' = t
            /\ UNCHANGED <<vfs_pc, fs_mutex, frame_mutex>>

\* ls: the whole call, under the filesystem mutex; fs_last.ret is the
\* number of names listed.
VfsLs(t) ==
    /\ fs.status = "ok" /\ vfs_pc[t] = Idle
    /\ fs_mutex = NoThread
    /\ IF frame_mutex # NoThread
       THEN SpinOnFrame(t)
       ELSE /\ fs_last' = FsCall("ls", 0, 0,
                                 [st |-> fs, ret |-> Len(ls(fs))])
            /\ vfs_by' = t
            /\ UNCHANGED <<fs, vfs_pc, fs_mutex, frame_mutex>>

\* unlinkat once it has the filesystem mutex of line 252: the first
\* closure and, when links reached 0, find(path).unwrap().clear(), each of
\* find and clear under the filesystem mutex; clear ends with
\* block_cache_sync_all, after which the compaction is still to run.  When
\* links stays above 0 the compaction follows at once.
UnlinkBody(t, name) ==
    /\ LET r == unlink_first(fs, name)
           c == compact(r.st, name)
       IN  IF r.ret = -1 \/ r.st.status # "ok"
           THEN /\ fs' = r.st
                /\ fs_last' = FsCall("unlink", name, SlotOf(fs, name), r)
                /\ vfs_pc' = [vfs_pc EXCEPT ![t] = Idle]
           ELSE IF r.flag_to_erase
           THEN /\ fs' = r.st
                /\ vfs_pc' = [vfs_pc EXCEPT ![t] =
                                 [op |-> "unlink", a |-> name, ret |-> 0]]
                /\ UNCHANGED fs_last
           ELSE /\ fs' = c.st
                /\ fs_last' = FsCall("unlink", name, SlotOf(fs, name), c)
                /\ vfs_pc' = [vfs_pc EXCEPT ![t] = Idle]
    /\ vfs_by' = t
    /\ frame_mutex' = NoThread
    /\ UNCHANGED fs_mutex

\* unlinkat from its start: modify_disk_inode takes the frame mutex of the
\* directory's inode block, and the closure run under it looks the name up
\* and, once the name is found, takes the filesystem mutex for
\* get_disk_inode_pos.  When another thread holds the filesystem mutex,
\* the caller spins on it with the frame mutex held ("lock_fs").
VfsUnlink(t, name) ==
    /\ fs.status = "ok" /\ vfs_pc[t] = Idle
    /\ frame_mutex = NoThread
    /\ IF find_inode_id(fs, name) # {} /\ fs_mutex # NoThread
       THEN /\ vfs_pc' = [vfs_pc EXCEPT ![t] =
                             [op |-> "lock_fs", a |-> name, ret |-> 0]]
            /\ frame_mutex' = t
            /\ vfs_by' = t
            /\ UNCHANGED <<fs, fs_last, fs_mutex>>
       ELSE UnlinkBody(t, name)

\* The unlinkat that spun on the filesystem mutex gets it.
VfsUnlinkLocked(t) ==
    /\ fs.status = "ok"
    /\ vfs_pc[t].op = "lock_fs"
    /\ fs_mutex = NoThread
    /\ UnlinkBody(t, vfs_pc[t].a)

\* The compaction of an unlinkat that cleared the inode, and its return.
VfsCompact(t) ==
    /\ fs.status = "ok"
    /\ vfs_pc[t].op = "unlink"
    /\ frame_mutex = NoThread
    /\ LET c == compact(fs, vfs_pc[t].a)
       IN  /\ fs' = c.st
           /\ fs_last' = FsCall("unlink", vfs_pc[t].a,
                                SlotOf(fs, vfs_pc[t].a), c)
    /\ vfs_pc' = [vfs_pc EXCEPT ![t] = Idle]
    /\ vfs_by' = t
    /\ UNCHANGED <<fs_mutex, frame_mutex>>

VfsNext ==
    /\ \E t \in Tids :
           \/ \E name \in Names : VfsCreate(t, name)
           \/ VfsReturn(t)
           \/ \E src \in Names, new_name \in Names : VfsLink(t, src, new_name)
           \/ VfsLs(t)
           \/ \E name \in Names : VfsUnlink(t, name)
           \/ VfsUnlinkLocked(t)
           \/ VfsCompact(t)
    /\ UNCHANGED <<sync_vars, proc_vars, mm_vars>>

\* ------------------------------------------------------------------------
\* The synchronisation subsystem of one process
\* ------------------------------------------------------------------------

\* A process whose NThreads threads exist (their table rows are empty: no
\* resource has been created) and which has made no synchronisation call.
SyncInit ==
    /\ mutex_list = <<>>
    /\ semaphore_list = <<>>
    /\ mutex_available = <<>>
    /\ mutex_allocated = [t \in Tids |-> <<>>]
    /\ mutex_need = [t \in Tids |-> <<>>]
    /\ sem_available = <<>>
    /\ sem_allocated = [t \in Tids |-> <<>>]
    /\ sem_need = [t \in Tids |-> <<>>]
    /\ enable_deadlock_detect = FALSE
    /\ waiting = [t \in Tids |-> NoWait]
    /\ mutex_holder = <<>>
    /\ sync_last = Ret("none", 0, 0, 0)
    /\ unchecked = FALSE
    /\ condvar_list = <<>>
    /\ pcb_inner = NoThread
    /\ held_at_call = FALSE

\* The handlers of the mutex class.
MutexNext ==
    \E t \in Tids :
        \/ sys_mutex_create(t)
        \/ \E m \in 0 .. (MaxMutex - 1) : sys_mutex_lock(t, m)
        \/ \E m \in 0 .. (MaxMutex - 1) : sys_mutex_unlock(t, m)

\* The values of res_count: 0 .. MaxCount, and those with bits above the
\* 32nd.
ResCounts == {Usize(hi, lo) : hi \in 0 .. MaxHigh, lo \in 0 .. MaxCount}

\* The handlers of the semaphore class.
SemNext ==
    \E t \in Tids :
        \/ \E n \in ResCounts : sys_semaphore_create(t, n)
        \/ \E s \in 0 .. (MaxSem - 1) : sys_semaphore_up(t, s)
        \/ \E s \in 0 .. (MaxSem - 1) : sys_semaphore_down(t, s)

DetectNext ==
    \E t \in Tids : \E x \in 0 .. 2 : sys_enable_deadlock_detect(t, x)

\* The processes explored create resources of one class only, mutexes or
\* semaphores: the two classes have separate tables, primitives and
\* detector runs.
SyncNext ==
    /\ \/ semaphore_list = <<>> /\ MutexNext
       \/ mutex_list = <<>> /\ SemNext
       \/ DetectNext
    /\ UNCHANGED <<fs_vars, proc_vars, mm_vars>>

\* The handlers of the condition variables.
CondNext ==
    \E t \in Tids :
        \/ sys_condvar_create(t)
        \/ \E c \in 0 .. (MaxCondvar - 1) : sys_condvar_signal(t, c)
        \/ \E c \in 0 .. (MaxCondvar - 1), m \in 0 .. (MaxMutex - 1) :
               sys_condvar_wait(t, c, m)
        \/ condvar_relock(t)

PcbNext ==
    \/ SyncNext
    \/ /\ semaphore_list = <<>> /\ CondNext
       /\ UNCHANGED <<fs_vars, proc_vars, mm_vars>>

\* ------------------------------------------------------------------------
\* Processes: fork, exit, waitpid
\* ------------------------------------------------------------------------

Pids == 1 .. MaxPid
\* The parent is the first process forked.
ParentPid == MinOf(Pids)
ExitCodes == -1 .. MaxCode
Ptrs == 0 .. (NPtrs - 1)

\* A child as the parent's list holds it.
Child(pid) == [pid |-> pid, is_zombie |-> FALSE, exit_code |-> 0]

\* pid == -1 || pid as usize == p.getpid(): a negative pid converts to a
\* usize above every pid in use.
matches(pid, p) == pid = -1 \/ (pid >= 0 /\ pid = p.pid)

\* find_zombie without the is_zombie() test.
find_zombie_any(ch, pid) ==
    LET hits == {i \in 1 .. Len(ch) : matches(pid, ch[i])}
    IN  IF hits = {} THEN 0 ELSE MinOf(hits)

\* The (1-based) index of the first zombie child that matches, 0 for None.
find_zombie(ch, pid) ==
    LET hits == {i \in 1 .. Len(ch) : ch[i].is_zombie /\ matches(pid, ch[i])}
    IN  IF hits = {} THEN 0 ELSE MinOf(hits)

\* remove that leaves the child in the list.
remove_none(ch, idx) == ch

\* Vec::remove(idx), idx 1-based
remove(ch, idx) == SubSeq(ch, 1, idx - 1) \o SubSeq(ch, idx + 1, Len(ch))

\* sys_waitpid(pid, exit_code_ptr) of a process whose children list is ch
\* and whose memory is mem: [children, mem, ret]
sys_waitpid(ch, mem, pid, exit_code_ptr) ==
    IF ~ \E i \in 1 .. Len(ch) : matches(pid, ch[i])
    THEN [children |-> ch, mem |-> mem, ret |-> -1]
    ELSE LET idx == find_zombie(ch, pid)
         IN  IF idx # 0
             THEN [children |-> remove(ch, idx),
                   mem |-> [mem EXCEPT ![exit_code_ptr] = ch[idx].exit_code],
                   ret |-> ch[idx].pid]
             ELSE [children |-> ch, mem |-> mem, ret |-> -2]

ProcCall(op, pid, ptr, ret) == [op |-> op, pid |-> pid, ptr |-> ptr, ret |-> ret]

\* The parent calls waitpid.
Waitpid(pid, exit_code_ptr) ==
    LET r == sys_waitpid(children, user_mem, pid, exit_code_ptr)
    IN  /\ children' = r.children
        /\ user_mem' = r.mem
        /\ proc_last' = ProcCall("waitpid", pid, exit_code_ptr, r.ret)
        /\ UNCHANGED task_info

\* The parent calls fork: the child gets a pid no live process has, is
\* appended to the parent's children, gets a copy of the parent's TASK_INFO
\* entry (the parent has one since it was forked), and its pid is returned.
sys_fork(new_pid) ==
    /\ Len(children) < MaxChildren
    /\ new_pid # ParentPid
    /\ \A i \in 1 .. Len(children) : children[i].pid # new_pid
    /\ ParentPid \in task_info
    /\ children' = Append(children, Child(new_pid))
    /\ task_info' = task_info \cup {new_pid}
    /\ proc_last' = ProcCall("fork", 0, 0, new_pid)
    /\ UNCHANGED user_mem

\* The child at index i of the list exits with exit_code: it becomes a
\* zombie that holds the code.
exit_current_and_run_next(i, exit_code) ==
    /\ i <= Len(children)
    /\ ~children[i].is_zombie
    /\ children' = [children EXCEPT ![i].is_zombie = TRUE,
                                    ![i].exit_code = exit_code]
    /\ proc_last' = ProcCall("exit", children[i].pid, 0, exit_code)
    /\ UNCHANGED <<task_info, user_mem>>

ProcInit ==
    /\ children = <<>>
    /\ task_info = {ParentPid}
    /\ user_mem = [a \in Ptrs |-> 0]
    /\ proc_last = ProcCall("none", 0, 0, 0)

ProcNext ==
    /\ \/ \E new_pid \in Pids : sys_fork(new_pid)
       \/ \E i \in 1 .. MaxChildren, code \in ExitCodes :
              exit_current_and_run_next(i, code)
       \/ \E pid \in -2 .. MaxPid, ptr \in Ptrs : Waitpid(pid, ptr)
    /\ UNCHANGED <<sync_vars, fs_vars, mm_vars>>

\* ------------------------------------------------------------------------
\* Address space: mmap, munmap
\* ------------------------------------------------------------------------

\* x & y and x & !y on unsigned integers
RECURSIVE BitAnd(_, _)
BitAnd(x, y) ==
    IF x = 0 \/ y = 0 THEN 0
    ELSE (x % 2) * (y % 2) + 2 * BitAnd(x \div 2, y \div 2)

RECURSIVE BitAndNot(_, _)
BitAndNot(x, y) ==
    IF x = 0 THEN 0
    ELSE (x % 2) * (1 - (y % 2)) + 2 * BitAndNot(x \div 2, y \div 2)

\* Arguments of the calls: start and len (a page boundary or one byte past
\* it), port.
Starts == {p * PAGE_SIZE + o : p \in 0 .. (NPages - 1), o \in 0 .. 1}
Lens == {p * PAGE_SIZE + o : p \in 0 .. (NPages - 1), o \in 0 .. 1}
Ports == 0 .. MaxPort
\* The pages [start, start + len) can touch.
Vpns == 0 .. (2 * NPages - 1)

\* The pages of ceil(len / page) pages from the one start lies in.
PagesOf(start, len) ==
    LET first == start \div PAGE_SIZE
        n == (len + PAGE_SIZE - 1) \div PAGE_SIZE
    IN  first .. (first + n - 1)

\* The pages of S below page p.
Before(S, p) == {q \in S : q < p}

\* current_task_mmap: the outcomes [mm, ret].  It fails if a target page is
\* mapped; the pages before the first such page are then mapped or not.
current_task_mmap(m, start, len, perm) ==
    LET pages == PagesOf(start, len)
        taken == {p \in pages : m[p] # {}}
    IN  IF taken = {}
        THEN {[mm |-> [p \in Vpns |-> IF p \in pages THEN perm ELSE m[p]],
               ret |-> 0]}
        ELSE {[mm |-> m, ret |-> -1],
              [mm |-> [p \in Vpns |->
                          IF p \in Before(pages, MinOf(taken)) THEN perm
                          ELSE m[p]],
               ret |-> -1]}

\* current_task_munmap: the outcomes [mm, ret].  It fails if a target page
\* is not mapped; the pages before the first such page are then unmapped or
\* not.
current_task_munmap(m, start, len) ==
    LET pages == PagesOf(start, len)
        free == {p \in pages : m[p] = {}}
    IN  IF free = {}
        THEN {[mm |-> [p \in Vpns |-> IF p \in pages THEN {} ELSE m[p]],
               ret |-> 0]}
        ELSE {[mm |-> m, ret |-> -1],
              [mm |-> [p \in Vpns |->
                          IF p \in Before(pages, MinOf(free)) THEN {}
                          ELSE m[p]],
               ret |-> -1]}

\* mmap_perm that grants every permission.
mmap_perm_all(port) == {"U", "R", "W", "X"}

\* The MapPermission sys_mmap builds from port.
mmap_perm(port) ==
    {"U"} \cup (IF BitAnd(port, 1) # 0 THEN {"R"} ELSE {})
          \cup (IF BitAnd(port, 2) # 0 THEN {"W"} ELSE {})
          \cup (IF BitAnd(port, 4) # 0 THEN {"X"} ELSE {})

\* sys_mmap: the outcomes [mm, ret, perm]; perm is the permission passed to
\* current_task_mmap, {} when it is not called.
sys_mmap(m, start, len, port) ==
    IF \/ BitAnd(start, PAGE_SIZE - 1) # 0
       \/ BitAndNot(port, 7) # 0
       \/ BitAnd(port, 7) = 0
    THEN {[mm |-> m, ret |-> -1, perm |-> {}]}
    ELSE {[mm |-> r.mm, ret |-> r.ret, perm |-> mmap_perm(port)] :
             r \in current_task_mmap(m, start, len, mmap_perm(port))}

\* sys_munmap: the outcomes [mm, ret, perm]
sys_munmap(m, start, len) ==
    IF BitAnd(start, PAGE_SIZE - 1) # 0
    THEN {[mm |-> m, ret |-> -1, perm |-> {}]}
    ELSE {[mm |-> r.mm, ret |-> r.ret, perm |-> {}] :
             r \in current_task_munmap(m, start, len)}

MmCall(op, r) == [op |-> op, ret |-> r.ret, perm |-> r.perm]

Mmap(start, len, port) ==
    \E r \in sys_mmap(mm, start, len, port) :
        /\ mm' = r.mm
        /\ mm_last' = MmCall("mmap", r)

Munmap(start, len) ==
    \E r \in sys_munmap(mm, start, len) :
        /\ mm' = r.mm
        /\ mm_last' = MmCall("munmap", r)

\* No page of the range the calls use is mapped.
MmInit ==
    /\ mm = [p \in Vpns |-> {}]
    /\ mm_last = MmCall("none", [ret |-> 0, perm |-> {}])

MmNext ==
    /\ \/ \E start \in Starts, len \in Lens, port \in Ports :
              Mmap(start, len, port)
       \/ \E start \in Starts, len \in Lens : Munmap(start, len)
    /\ UNCHANGED <<sync_vars, fs_vars, proc_vars>>

\* ------------------------------------------------------------------------
\* Specifications
\* ------------------------------------------------------------------------

Init == SyncInit /\ FsInit /\ ProcInit /\ MmInit

Next == PcbNext \/ FsNext \/ VfsNext \/ ProcNext \/ MmNext

\* The kernel: the subsystems together.
Spec == Init /\ [][Next]_vars

\* The synchronisation syscalls of one process; the filesystem (a fresh one)
\* is idle.
IdleFsInit ==
    /\ SyncInit
    /\ fs = Image(0)
    /\ fs_last = NoFsCall
    /\ VfsIdle
    /\ ProcInit
    /\ MmInit

SyncSpec == IdleFsInit /\ [][SyncNext]_vars

\* The synchronisation syscalls with the condition variables: a process
\* that has no semaphore creates, signals and waits on condvars.
PcbSpec == IdleFsInit /\ [][PcbNext]_vars

\* The VFS calls on the root directory; no synchronisation syscall is made.
FsSpec == Init /\ [][FsNext]_vars

\* fork, exit and waitpid of one parent and its children; the other
\* subsystems are idle.
ProcSpec == IdleFsInit /\ [][ProcNext]_vars

\* mmap and munmap of one process; the other subsystems are idle.
MmSpec == IdleFsInit /\ [][MmNext]_vars

\* The VFS calls of the threads, interleaved, on an image that holds
\* MaxPreload files; the other subsystems are idle.
VfsInit ==
    /\ SyncInit
    /\ fs = Image(MaxPreload)
    /\ fs_last = NoFsCall
    /\ VfsIdle
    /\ ProcInit
    /\ MmInit

VfsSpec == VfsInit /\ [][VfsNext]_vars

\* ------------------------------------------------------------------------
\* Properties of the synchronisation syscalls
\* ------------------------------------------------------------------------

Mids == 0 .. (MaxMutex - 1)
Sids == 0 .. (MaxSem - 1)

HasMutex(m) == m < Len(mutex_list)
HasSem(s) == s < Len(semaphore_list)

\* The state of the crossing scenario of threads t1, t2 on mutexes m1, m2,
\* the only mutexes of a process whose other threads (if any) hold and await
\* nothing:
\* a: t1 has locked m1; b: t2 has locked m2; c: t1 has requested m2 and is
\* blocked.  Real mutexes and detector tables are as these calls leave them.
CrossingState(t1, t2, m1, m2, a, b, c) ==
    /\ t1 # t2 /\ m1 # m2 /\ HasMutex(m1) /\ HasMutex(m2)
    /\ Len(mutex_list) = 2
    /\ \A t \in Tids \ {t1, t2} : waiting[t] = NoWait
    /\ At(mutex_list, m1) =
           [NewMutex EXCEPT !.locked = a]
    /\ At(mutex_list, m2) =
           [NewMutex EXCEPT !.locked = b, !.queue = IF c THEN <<t1>> ELSE <<>>]
    /\ At(mutex_holder, m1) = (IF a THEN t1 ELSE NoThread)
    /\ At(mutex_holder, m2) = (IF b THEN t2 ELSE NoThread)
    /\ waiting[t1] = (IF c THEN <<"mutex", m2>> ELSE NoWait)
    /\ waiting[t2] = NoWait
    /\ At(mutex_available, m1) = (IF a THEN 0 ELSE 1)
    /\ At(mutex_available, m2) = (IF b THEN 0 ELSE 1)
    /\ \A t \in Tids :
           /\ At(mutex_allocated[t], m1) = (IF a /\ t = t1 THEN 1 ELSE 0)
           /\ At(mutex_allocated[t], m2) = (IF b /\ t = t2 THEN 1 ELSE 0)
           /\ At(mutex_need[t], m1) = 0
           /\ At(mutex_need[t], m2) = (IF c /\ t = t1 THEN 1 ELSE 0)

\* The crossing scenario with detection on.
Crossing(t1, t2, m1, m2, a, b, c) ==
    enable_deadlock_detect /\ CrossingState(t1, t2, m1, m2, a, b, c)

\* The step is the handler op(id) called by thread t.
IsCall(op, t, id) ==
    /\ sync_last'.op = op
    /\ sync_last'.tid = t
    /\ sync_last'.id = id

\* C1: with detection on, after t1 locked m1 (returning 0), t2 locked m2
\* (returning 0) and t1 requested m2 (judged safe: t1 blocks), the call
\* mutex_lock(m1) of t2 returns -0xdead and t2 does not block.
C1_CrossingVetoed ==
    [][\A t1, t2 \in Tids, m1, m2 \in Mids :
        /\ Crossing(t1, t2, m1, m2, FALSE, FALSE, FALSE)
             /\ IsCall("mutex_lock", t1, m1)
           => /\ sync_last' = Ret("mutex_lock", t1, m1, 0)
              /\ Crossing(t1, t2, m1, m2, TRUE, FALSE, FALSE)'
        /\ Crossing(t1, t2, m1, m2, TRUE, FALSE, FALSE)
             /\ IsCall("mutex_lock", t2, m2)
           => /\ sync_last' = Ret("mutex_lock", t2, m2, 0)
              /\ Crossing(t1, t2, m1, m2, TRUE, TRUE, FALSE)'
        /\ Crossing(t1, t2, m1, m2, TRUE, TRUE, FALSE)
             /\ IsCall("mutex_lock", t1, m2)
           => /\ sync_last' = Blocked("mutex_lock", t1, m2)
              /\ Crossing(t1, t2, m1, m2, TRUE, TRUE, TRUE)'
        /\ Crossing(t1, t2, m1, m2, TRUE, TRUE, TRUE)
             /\ IsCall("mutex_lock", t2, m1)
           => /\ sync_last' = Ret("mutex_lock", t2, m1, -DEAD)
              /\ waiting'[t2] = NoWait
              /\ At(mutex_list', m1).queue = <<>>
      ]_vars

\* C1 witness: t2's mutex_lock(m1) has just returned -0xdead in the crossing
\* (t1 owns m1 and is queued on m2, which t2 owns).
C1_Witness ==
    \E t1, t2 \in Tids, m1, m2 \in Mids :
        /\ t1 # t2 /\ m1 # m2 /\ HasMutex(m1) /\ HasMutex(m2)
        /\ Len(mutex_list) = 2
        /\ sync_last = Ret("mutex_lock", t2, m1, -DEAD)
        /\ At(mutex_holder, m1) = t1
        /\ At(mutex_holder, m2) = t2
        /\ At(mutex_list, m2).queue = <<t1>>
        /\ waiting[t1] = <<"mutex", m2>>
        /\ waiting[t2] = NoWait
        /\ At(mutex_allocated[t1], m1) = 1
        /\ At(mutex_allocated[t2], m2) = 1
        /\ At(mutex_need[t1], m2) = 1

\* A set D of threads is deadlocked when each of them is blocked on a mutex
\* owned by a thread of D, or on a semaphore while no thread outside D is
\* left to call up.
DeadlockedSet(D) ==
    /\ D # {}
    /\ \A t \in D :
           \/ /\ waiting[t][1] = "mutex"
              /\ At(mutex_holder, waiting[t][2]) \in D
           \/ /\ waiting[t][1] = "sem"
              /\ D = Tids

Deadlocked == \E D \in SUBSET Tids : DeadlockedSet(D)

\* C2: when every acquire so far ran with detection enabled (so each one that
\* proceeded was judged safe), no set of threads is deadlocked.
C2_NoDeadlock == ~unchecked => ~Deadlocked

\* The detector tables of both classes.
Tables ==
    <<mutex_available, mutex_allocated, mutex_need,
      sem_available, sem_allocated, sem_need>>

\* C3: when mutex_lock or semaphore_down returns -0xdead, the caller is not
\* blocked and the detector tables are what they were before the call.
C3_VetoRollsBack ==
    [][(sync_last'.op \in {"mutex_lock", "semaphore_down"}
          /\ sync_last'.done /\ sync_last'.val = -DEAD)
       => /\ waiting'[sync_last'.tid] = NoWait
          /\ Tables' = Tables
      ]_vars

\* Table tbl2 is table tbl with entry [t][id] changed by delta and nothing
\* else changed.
OnlyEntry(tbl, tbl2, t, id, delta) ==
    /\ DOMAIN tbl2 = DOMAIN tbl
    /\ \A u \in DOMAIN tbl :
           /\ Len(tbl2[u]) = Len(tbl[u])
           /\ \A q \in 0 .. (Len(tbl[u]) - 1) :
                  At(tbl2[u], q) =
                      IF u = t /\ q = id THEN AddU32(At(tbl[u], q), delta)
                      ELSE At(tbl[u], q)

\* Vector v2 is v with entry id changed by delta and nothing else changed.
OnlyColumn(v, v2, id, delta) ==
    /\ Len(v2) = Len(v)
    /\ \A q \in 0 .. (Len(v) - 1) :
           At(v2, q) = IF q = id THEN AddU32(At(v, q), delta) ELSE At(v, q)

AcquireRule(av, al, nd, av2, al2, nd2, t, r) ==
    IF At(av, r) # 0
    THEN /\ OnlyColumn(av, av2, r, -1)
         /\ OnlyEntry(al, al2, t, r, 1)
         /\ nd2 = nd
    ELSE /\ OnlyEntry(nd, nd2, t, r, 1)
         /\ av2 = av
         /\ al2 = al

ReleaseRule(av, al, nd, av2, al2, nd2, t, r) ==
    /\ OnlyColumn(av, av2, r, 1)
    /\ OnlyEntry(al, al2, t, r, -1)
    /\ nd2 = nd

\* C4: the update rules of the tables.  An acquire by t on r with
\* Available[r] > 0 does Available[r] -= 1, Allocation[t][r] += 1 and leaves
\* Need; with Available[r] = 0 it does Need[t][r] += 1 and leaves Available
\* and Allocation; a release does Available[r] += 1, Allocation[t][r] -= 1
\* (u32 arithmetic).  No other entry of the class changes, and no entry of
\* the other class.
C4_UpdateRules ==
    [][LET c == sync_last'
           mutex_same == /\ mutex_available' = mutex_available
                         /\ mutex_allocated' = mutex_allocated
                         /\ mutex_need' = mutex_need
           sem_same == /\ sem_available' = sem_available
                       /\ sem_allocated' = sem_allocated
                       /\ sem_need' = sem_need
       IN  /\ c.op = "mutex_lock" =>
                 /\ AcquireRule(mutex_available, mutex_allocated, mutex_need,
                                mutex_available', mutex_allocated',
                                mutex_need', c.tid, c.id)
                 /\ sem_same
           /\ c.op = "mutex_unlock" =>
                 /\ ReleaseRule(mutex_available, mutex_allocated, mutex_need,
                                mutex_available', mutex_allocated',
                                mutex_need', c.tid, c.id)
                 /\ sem_same
           /\ c.op = "semaphore_down" =>
                 /\ AcquireRule(sem_available, sem_allocated, sem_need,
                                sem_available', sem_allocated', sem_need',
                                c.tid, c.id)
                 /\ mutex_same
           /\ c.op = "semaphore_up" =>
                 /\ ReleaseRule(sem_available, sem_allocated, sem_need,
                                sem_available', sem_allocated', sem_need',
                                c.tid, c.id)
                 /\ mutex_same
      ]_vars

\* C4 witness: a release has just run in a process where an acquire found
\* the resource available (the releasing thread's) and another found it
\* taken (a Need entry is set).
C4_Witness ==
    /\ sync_last.op = "mutex_unlock"
    /\ \E t \in Tids : At(mutex_need[t], sync_last.id) = 1
    /\ At(mutex_allocated[sync_last.tid], sync_last.id) = 0
    /\ Len(mutex_available) = MaxMutex

\* C5: when a release wakes the head w of the resource's queue, the tables
\* record the transfer: Need[w][r] -= 1, Allocation[w][r] += 1, and
\* Available[r] is not increased; so after A unlocks a mutex on which B is
\* queued, Need[B][r] = 0, Allocation[B][r] = 1 and Available[r] = 0.
C5_WakeTransfers ==
    [][\A m \in Mids :
         (HasMutex(m) /\ sync_last'.op = "mutex_unlock" /\ sync_last'.id = m
            /\ At(mutex_list, m).queue # <<>>)
         => LET w == Head(At(mutex_list, m).queue)
            IN  /\ At(mutex_need'[w], m) = At(mutex_need[w], m) - 1
                /\ At(mutex_allocated'[w], m) = At(mutex_allocated[w], m) + 1
                /\ At(mutex_available', m) = At(mutex_available, m)
      ]_vars

\* t1 and t2 block each other: each waits for a mutex the other owns.
CrossBlocked(t1, t2, m1, m2) ==
    /\ t1 # t2 /\ m1 # m2 /\ HasMutex(m1) /\ HasMutex(m2)
    /\ waiting[t1] = <<"mutex", m2>> /\ At(mutex_holder, m2) = t2
    /\ waiting[t2] = <<"mutex", m1>> /\ At(mutex_holder, m1) = t1

\* C17: with detection disabled, a mutex_lock or semaphore_down never
\* returns -0xdead: it returns 0 having acquired (the mutex is the caller's,
\* the semaphore's count is one less) or the caller blocks in the queue; in
\* the crossing scenario the last requester, t2 on m1, blocks, and from
\* then on t1 and t2 stay blocked on each other.
C17_DetectOffBlocks ==
    [][/\ (~enable_deadlock_detect
            /\ sync_last'.op \in {"mutex_lock", "semaphore_down"})
          => LET c == sync_last'
             IN  /\ c.val # -DEAD
                 /\ IF c.done
                    THEN /\ c.val = 0
                         /\ waiting'[c.tid] = NoWait
                         /\ c.op = "mutex_lock" =>
                                /\ ~At(mutex_list, c.id).locked
                                /\ At(mutex_list', c.id).locked
                                /\ At(mutex_holder', c.id) = c.tid
                         /\ c.op = "semaphore_down" =>
                                At(semaphore_list', c.id).count =
                                    At(semaphore_list, c.id).count - 1
                    ELSE /\ c.op = "mutex_lock" =>
                                /\ waiting'[c.tid] = <<"mutex", c.id>>
                                /\ At(mutex_list', c.id).queue =
                                       Append(At(mutex_list, c.id).queue, c.tid)
                         /\ c.op = "semaphore_down" =>
                                /\ waiting'[c.tid] = <<"sem", c.id>>
                                /\ At(semaphore_list', c.id).queue =
                                       Append(At(semaphore_list, c.id).queue,
                                              c.tid)
       /\ \A t1, t2 \in Tids, m1, m2 \in Mids :
            /\ (~enable_deadlock_detect
                  /\ CrossingState(t1, t2, m1, m2, TRUE, TRUE, TRUE)
                  /\ IsCall("mutex_lock", t2, m1))
               => /\ sync_last' = Blocked("mutex_lock", t2, m1)
                  /\ CrossBlocked(t1, t2, m1, m2)'
            /\ CrossBlocked(t1, t2, m1, m2) => CrossBlocked(t1, t2, m1, m2)'
      ]_vars

\* C17 witness: with detection disabled, t2's mutex_lock(m1) has just
\* blocked in the crossing: t1 and t2 wait for each other.
C17_Witness ==
    \E t1, t2 \in Tids, m1, m2 \in Mids :
        /\ ~enable_deadlock_detect
        /\ Len(mutex_list) = 2
        /\ CrossBlocked(t1, t2, m1, m2)
        /\ sync_last = Blocked("mutex_lock", t2, m1)
        /\ At(mutex_list, m1).queue = <<t2>>
        /\ At(mutex_list, m2).queue = <<t1>>

\* C18: enable_deadlock_detect(x) sets the flag to true and returns 0 for
\* x = 1, sets it to false and returns 0 for x = 0, returns -1 and leaves
\* the flag for x > 1; it changes no detector table (and no mutex, semaphore
\* or thread state).
C18_EnableDetect ==
    [][sync_last'.op = "enable_deadlock_detect"
       => LET x == sync_last'.id
          IN  /\ sync_last'.done
              /\ x = 1 => enable_deadlock_detect' /\ sync_last'.val = 0
              /\ x = 0 => ~enable_deadlock_detect' /\ sync_last'.val = 0
              /\ x > 1 => /\ sync_last'.val = -1
                          /\ enable_deadlock_detect' = enable_deadlock_detect
              /\ Tables' = Tables
              /\ <<mutex_list, semaphore_list, waiting>>' =
                     <<mutex_list, semaphore_list, waiting>>
      ]_vars

\* C18 witness: enable_deadlock_detect(2) has just returned -1 in a process
\* with the flag set and a mutex locked.
C18_Witness ==
    /\ sync_last.op = "enable_deadlock_detect"
    /\ sync_last.id > 1
    /\ sync_last.val = -1
    /\ enable_deadlock_detect
    /\ \E m \in Mids : HasMutex(m) /\ At(mutex_available, m) = 0

\* ------------------------------------------------------------------------
\* Properties of the directory operations
\* ------------------------------------------------------------------------

Count(d) == d.size \div DIRENT_SZ

\* The slots (1-based) of the entries that reference inode id.
Refs(d, id) == {i \in 1 .. Count(d) : d.ents[i].inode_id = id}

\* C6: every inode referenced by a directory entry has links equal to the
\* number of entries that reference it.
C6_LinkCount ==
    \A id \in InodeIds :
        Refs(fs, id) # {} => fs.links[id] = Cardinality(Refs(fs, id))

\* C7: the directory's size is a multiple of 32 and its entries are live
\* (non-empty name; the names of the model are all non-empty) and pairwise
\* distinct in name.
C7_WellFormedDir ==
    /\ fs.size % DIRENT_SZ = 0
    /\ Len(fs.ents) >= Count(fs)
    /\ \A i \in 1 .. Count(fs) : fs.ents[i].name >= 1
    /\ \A i, j \in 1 .. Count(fs) :
           i # j => fs.ents[i].name # fs.ents[j].name

\* C8: in every state, link(src, new_name) returning 0 followed by
\* unlink(new_name) returns 0 and restores the listing and the link count
\* of src's inode.
C8_LinkUnlinkRoundTrip ==
    fs.status = "ok" =>
        \A src, new_name \in Names :
            LET r1 == create_link(fs, src, new_name)
                r2 == unlinkat(r1.st, new_name)
            IN  r1.ret = 0 =>
                    /\ r2.st.status = "ok"
                    /\ r2.ret = 0
                    /\ ls(r2.st) = ls(fs)
                    /\ \A id \in find_inode_id(fs, src) :
                           r2.st.links[id] = fs.links[id]

\* The step is an unlink that removed an entry and returned 0.
Unlinked == fs_last'.op = "unlink" /\ fs_last'.done /\ fs_last'.ret = 0

C10_UnlinkLinks ==
    fs.status = "ok" =>
        \A name \in Names :
            LET r == unlinkat(fs, name)
                found == find_inode_id(fs, name)
            IN  IF found = {}
                THEN r.ret = -1 /\ r.st = fs
                ELSE \A id \in found :
                        /\ r.st.links[id] = fs.links[id] - 1
                        /\ r.st.data[id] =
                               (IF r.st.links[id] = 0 THEN <<>>
                                ELSE fs.data[id])
                        /\ \A o \in InodeIds \ {id} :
                               /\ r.st.links[o] = fs.links[o]
                               /\ r.st.data[o] = fs.data[o]

\* ------------------------------------------------------------------------
\* Properties of create, link and the data bitmap
\* ------------------------------------------------------------------------

\* The directory was empty on the fresh filesystem and holds files made by
\* create and not yet unlinked: every entry has a name the calls use, its
\* own inode, and links = 1.
OnlyCreated(d) ==
    /\ \A i \in 1 .. Count(d) :
           /\ d.ents[i].name \in Names
           /\ d.links[d.ents[i].inode_id] = 1
    /\ \A i, j \in 1 .. Count(d) :
           i # j => /\ d.ents[i].name # d.ents[j].name
                    /\ d.ents[i].inode_id # d.ents[j].inode_id

\* C11: in a directory of N created (and written) files, unlinking any of
\* the names returns 0, removes the name from ls() and gives the file's
\* data blocks back to the data bitmap; when the unlink removes the last
\* of them, ls() is empty and the data bitmap has as many bits set as on
\* the fresh filesystem, before the first create.
C11_DeleteAllRestores ==
    fs.status = "ok" /\ OnlyCreated(fs) =>
        \A name \in Names :
            LET r == unlinkat(fs, name)
            IN  \A id \in find_inode_id(fs, name) :
                    /\ r.st.status = "ok"
                    /\ r.ret = 0
                    /\ find_inode_id(r.st, name) = {}
                    /\ Count(r.st) = Count(fs) - 1
                    /\ ls(r.st) # <<>> =>
                           r.st.used = fs.used - total_blocks(Len(fs.data[id]))
                    /\ ls(r.st) = <<>> => r.st.used = Image(0).used

\* ------------------------------------------------------------------------
\* Properties of waitpid
\* ------------------------------------------------------------------------

\* The list ch without its element at index i.
Without(ch, i) == [k \in 1 .. (Len(ch) - 1) |-> IF k < i THEN ch[k] ELSE ch[k + 1]]

\* C12: waitpid(pid, code) returns -1 and changes nothing when no child
\* matches (pid = -1 matches every child, another pid the child with that
\* pid); returns -2 and changes nothing when a child matches and no matching
\* child is a zombie; otherwise removes exactly one matching zombie from the
\* children list, stores its exit code at the pointer and returns its pid.
C12_WaitpidResult ==
    \A pid \in -2 .. MaxPid, ptr \in Ptrs :
        LET r == sys_waitpid(children, user_mem, pid, ptr)
            M == {i \in 1 .. Len(children) : pid = -1 \/ children[i].pid = pid}
            Z == {i \in M : children[i].is_zombie}
        IN  IF M = {}
            THEN r.ret = -1 /\ r.children = children /\ r.mem = user_mem
            ELSE IF Z = {}
            THEN r.ret = -2 /\ r.children = children /\ r.mem = user_mem
            ELSE \E i \in Z :
                    /\ r.children = Without(children, i)
                    /\ r.mem = [user_mem EXCEPT ![ptr] = children[i].exit_code]
                    /\ r.ret = children[i].pid

\* C12 witness: a waitpid has just reaped one zombie (its code, not 0, is
\* at the pointer) and left another child in the list.
C12_Witness ==
    /\ proc_last.op = "waitpid"
    /\ proc_last.ret \in Pids
    /\ user_mem[proc_last.ptr] # 0
    /\ children # <<>>
    /\ \A i \in 1 .. Len(children) : children[i].pid # proc_last.ret

\* n successive calls waitpid(-1, ptr) from the list ch: the list left and
\* the pairs <<pid returned, code found at ptr>> in call order.
RECURSIVE ReapAll(_, _, _, _)
ReapAll(ch, mem, ptr, n) ==
    IF n = 0
    THEN [children |-> ch, mem |-> mem, got |-> <<>>]
    ELSE LET r == sys_waitpid(ch, mem, -1, ptr)
             rest == ReapAll(r.children, r.mem, ptr, n - 1)
         IN  [rest EXCEPT !.got = << <<r.ret, r.mem[ptr]>> >> \o @]

\* C13: waitpid on a child that has not exited returns -2; once all N
\* children have exited, N successive waitpid(-1) return N distinct child
\* pids, each with that child's exit code, and every later waitpid, with -1
\* or with a pid already returned, returns -1.
C13_ReapedOnce ==
    LET N == Len(children)
    IN  \A ptr \in Ptrs :
          /\ \A i \in 1 .. N :
                 ~children[i].is_zombie =>
                     sys_waitpid(children, user_mem, children[i].pid, ptr).ret = -2
          /\ (\A i \in 1 .. N : children[i].is_zombie) =>
                 LET R == ReapAll(children, user_mem, ptr, N)
                 IN  /\ Len(R.got) = N
                     /\ Cardinality({R.got[k][1] : k \in 1 .. N}) = N
                     /\ {R.got[k] : k \in 1 .. N} =
                            {<<children[i].pid, children[i].exit_code>> : i \in 1 .. N}
                     /\ \A pid \in {-1} \cup {children[i].pid : i \in 1 .. N} :
                            LET r == sys_waitpid(R.children, R.mem, pid, ptr)
                            IN  /\ r.ret = -1
                                /\ r.children = R.children
                                /\ r.mem = R.mem

\* C13 witness: MaxChildren children with different pids were forked, all
\* have been reaped, and one more waitpid(-1) has just returned -1.
C13_Witness ==
    /\ Cardinality(task_info) = MaxChildren + 1
    /\ children = <<>>
    /\ proc_last = ProcCall("waitpid", -1, proc_last.ptr, -1)

\* ------------------------------------------------------------------------
\* Properties of create and link
\* ------------------------------------------------------------------------

\* C14: create(name) on a directory that has an entry called name returns
\* None and leaves the directory (size and entries), the inode bitmap and
\* the data bitmap, as every other part of the filesystem, unchanged.
C14_CreateExisting ==
    fs.status = "ok" =>
        \A name \in Names :
            find_inode_id(fs, name) # {} =>
                LET r == create(fs, name)
                IN  /\ r.ret = {}
                    /\ r.st.size = fs.size /\ r.st.ents = fs.ents
                    /\ r.st.ninodes = fs.ninodes
                    /\ r.st.used = fs.used
                    /\ r.st = fs

\* C14 witness: a create of a name the directory holds has just returned
\* None.
C14_Witness ==
    /\ fs_last.op = "create" /\ fs_last.done /\ fs_last.ret = -1
    /\ find_inode_id(fs, fs_last.a) # {}

\* C15: create(name) on a directory without an entry called name returns a
\* handle to an inode that was not allocated before and is a File with
\* links = 1 and size 0; the directory grows by exactly one entry,
\* DirEntry(name, new_id), written after the others: ls() is the former
\* ls() followed by name, and find(name) gives the handle returned.
C15_CreateNew ==
    fs.status = "ok" =>
        \A name \in Names :
            (find_inode_id(fs, name) = {} /\ fs.ninodes <= MaxInode) =>
                LET r == create(fs, name)
                IN  /\ Cardinality(r.ret) = 1
                    /\ \A new_id \in r.ret :
                           /\ fs.type[new_id] = "none"
                           /\ \A i \in 1 .. Count(fs) :
                                  fs.ents[i].inode_id # new_id
                           /\ r.st.type[new_id] = "File"
                           /\ r.st.links[new_id] = 1
                           /\ Len(r.st.data[new_id]) = 0
                           /\ r.st.size = fs.size + DIRENT_SZ
                           /\ r.st.ents =
                                  Append(fs.ents, DirEntry(name, new_id))
                           /\ find(r.st, name) = {get_disk_inode_pos(new_id)}
                    /\ ls(r.st) = Append(ls(fs), name)
                    /\ r.st.status = "ok"

\* C15 witness: a create has just made a file in a directory that had
\* entries already.
C15_Witness ==
    /\ fs_last.op = "create" /\ fs_last.done /\ fs_last.ret > 0
    /\ Count(fs) >= 2
    /\ fs.ents[Count(fs)] = DirEntry(fs_last.a, fs_last.ret)

\* C16: link(src_name, new_name) returns -1 and changes neither the
\* directory nor a link count when src_name is not in the directory;
\* otherwise it returns 0, increments the links of src's inode by exactly 1
\* (no other link count changes) and appends DirEntry(new_name, id of src)
\* after the entries, which stay as they were.
C16_Link ==
    fs.status = "ok" =>
        \A src, new_name \in Names :
            LET r == create_link(fs, src, new_name)
                found == find_inode_id(fs, src)
            IN  IF found = {}
                THEN /\ r.ret = -1
                     /\ r.st.size = fs.size /\ r.st.ents = fs.ents
                     /\ r.st.links = fs.links
                ELSE \A id \in found :
                        /\ r.ret = 0
                        /\ r.st.links[id] = fs.links[id] + 1
                        /\ \A o \in InodeIds \ {id} :
                               r.st.links[o] = fs.links[o]
                        /\ r.st.size = fs.size + DIRENT_SZ
                        /\ r.st.ents = Append(fs.ents, DirEntry(new_name, id))

\* C16 witness: a link has just returned 0: its entry is the last one and
\* the inode has more than one link.
C16_Witness ==
    /\ fs_last.op = "link" /\ fs_last.done /\ fs_last.ret = 0
    /\ Count(fs) >= 2
    /\ fs.ents[Count(fs)].name = fs_last.b
    /\ fs.links[fs.ents[Count(fs)].inode_id] >= 2

\* ------------------------------------------------------------------------
\* Properties of mmap and munmap
\* ------------------------------------------------------------------------

\* C19: mmap(start, len, port) returns -1 and leaves the address space when
\* start is not a multiple of the page size, when port has a bit set above
\* the low 3 (port >= 8) or when its low 3 bits are all zero; otherwise it
\* calls the mapping with the permission set U, R iff port is odd, W iff
\* bit 1 of port is set, X iff bit 2 is set (the pages it maps get exactly
\* that set).  munmap(start, len) returns -1 and leaves the address space
\* when start is not a multiple of the page size.
C19_MmapArgs ==
    /\ \A start \in Starts, len \in Lens, port \in Ports :
           \A r \in sys_mmap(mm, start, len, port) :
               IF start % PAGE_SIZE # 0 \/ port >= 8 \/ port % 8 = 0
               THEN r.ret = -1 /\ r.mm = mm /\ r.perm = {}
               ELSE /\ "U" \in r.perm
                    /\ "R" \in r.perm <=> port % 2 = 1
                    /\ "W" \in r.perm <=> (port \div 2) % 2 = 1
                    /\ "X" \in r.perm <=> (port \div 4) % 2 = 1
                    /\ r.perm \subseteq {"U", "R", "W", "X"}
                    /\ \A p \in Vpns : r.mm[p] \in {mm[p], r.perm}
                    /\ r.ret = 0 =>
                           \A p \in PagesOf(start, len) : r.mm[p] = r.perm
    /\ \A start \in Starts, len \in Lens :
           \A r \in sys_munmap(mm, start, len) :
               start % PAGE_SIZE # 0 => r.ret = -1 /\ r.mm = mm

\* C19 witness: an mmap has just mapped pages readable and executable, not
\* writable, next to a page mapped with other permissions.
C19_Witness ==
    /\ mm_last.op = "mmap" /\ mm_last.ret = 0
    /\ mm_last.perm = {"U", "R", "X"}
    /\ \E p, q \in Vpns : mm[p] = {"U", "R", "X"} /\ mm[q] = {"U", "W"}

\* ------------------------------------------------------------------------
\* Properties of concurrent VFS calls
\* ------------------------------------------------------------------------

\* Thread t is inside unlink, after the decrement of links and the clear
\* of the data, before the compaction of the directory.
InUnlink(t) == vfs_pc[t].op = "unlink"

\* C20: unlink holds the filesystem mutex from its lookup to the end of its
\* compaction, so while a thread is between the link-count decrement, the
\* data clear and the compaction of its unlink, it holds the mutex and no
\* other thread takes a step of a VFS call (create, link, ls, unlink) that
\* observes or modifies the directory.
C20_UnlinkAtomic ==
    [][\A t \in Tids :
         InUnlink(t) => /\ fs_mutex = t
                        /\ vfs_by' = t
      ]_vars

\* ------------------------------------------------------------------------
\* Properties of the frame mutexes
\* ------------------------------------------------------------------------

\* The names of the directory's entries are pairwise distinct.
DistinctNames(d) ==
    \A i, j \in 1 .. Count(d) : i # j => d.ents[i].name # d.ents[j].name

\* C23: unlink of a name that is in the directory terminates and returns 0,
\* whichever block of the inode area the target's DiskInode record lies in
\* (the directory's own block included): it does not spin on a frame mutex
\* it holds.
C23_UnlinkTerminates ==
    fs.status = "ok" /\ DistinctNames(fs) =>
        \A name \in Names :
            find_inode_id(fs, name) # {} =>
                LET r == unlinkat(fs, name)
                IN  /\ r.st.status # "hung"
                    /\ r.st.status = "ok"
                    /\ r.ret = 0

\* Thread t has requested the filesystem mutex and has not got it.
WaitsFs(t) == vfs_pc[t].op = "lock_fs"

\* Thread t has to take the frame mutex of the directory's inode block to
\* go on, and another thread holds it.
WaitsFrame(t) ==
    /\ vfs_pc[t].op \in {"lock_frame", "create"}
    /\ frame_mutex \notin {NoThread, t}

\* Two VFS calls wait on each other: t1 holds the filesystem mutex and
\* waits for the frame mutex t2 holds, t2 waits for the filesystem mutex.
LockCycle(t1, t2) ==
    /\ t1 # t2
    /\ fs_mutex = t1 /\ WaitsFrame(t1)
    /\ frame_mutex = t2 /\ WaitsFs(t2)

\* C21: the VFS operations take the filesystem mutex before any frame
\* mutex: no thread requests the filesystem mutex while it holds a frame
\* mutex, and no two concurrent VFS calls wait on each other in a cycle.
C21_LockOrder ==
    /\ \A t \in Tids : WaitsFs(t) => frame_mutex # t
    /\ \A t1, t2 \in Tids : ~LockCycle(t1, t2)

\* ------------------------------------------------------------------------
\* Properties of the PCB inner lock
\* ------------------------------------------------------------------------

\* The handlers that call into a primitive.
PrimitiveOps ==
    {"mutex_lock", "mutex_unlock", "semaphore_up", "semaphore_down",
     "condvar_signal", "condvar_wait"}

\* C22: in mutex_lock, mutex_unlock, semaphore_up, semaphore_down,
\* condvar_signal and condvar_wait the PCB inner lock is not held when the
\* handler calls into the primitive, nor when it returns -0xdead without
\* calling it; so no thread blocked inside a primitive holds the PCB inner
\* lock, and the lock is free whenever a thread enters a handler.
C22_InnerDropped ==
    /\ sync_last.op \in PrimitiveOps => ~held_at_call
    /\ \A t \in Tids : waiting[t] # NoWait => pcb_inner # t
    /\ pcb_inner = NoThread

\* A mutex_lock has just returned -0xdead while another thread is blocked
\* inside Condvar::wait.
C22_Witness ==
    /\ sync_last.op = "mutex_lock"
    /\ sync_last.done
    /\ sync_last.val = -DEAD
    /\ \E t \in Tids : waiting[t][1] = "condvar"

\* ------------------------------------------------------------------------
\* Properties of the detector tables
\* ------------------------------------------------------------------------

\* No entry of the vector or of the rows is a wrapped one (a u32 that 0 - k
\* wrapped to is represented by -k).
NoWrap(avail, alloc, need) ==
    /\ \A r \in DOMAIN avail : avail[r] >= 0
    /\ \A t \in Tids :
           /\ \A r \in DOMAIN alloc[t] : alloc[t][r] >= 0
           /\ \A r \in DOMAIN need[t] : need[t][r] >= 0

\* C24: under well-formed calls (a thread unlocks only a mutex it holds;
\* any thread may call semaphore_up) no entry of Available, Allocation or
\* Need wraps below 0: every release finds Allocation[t][r] >= 1.
C24_NoUnderflow ==
    /\ NoWrap(mutex_available, mutex_allocated, mutex_need)
    /\ NoWrap(sem_available, sem_allocated, sem_need)

\* The threads queued on the mutex.
Queued(mu) == {mu.queue[i] : i \in 1 .. Len(mu.queue)}

RECURSIVE SumAllocated(_, _)
SumAllocated(T, m) ==
    IF T = {} THEN 0
    ELSE LET t == MinOf(T)
         IN  At(mutex_allocated[t], m) + SumAllocated(T \ {t}, m)

\* C25: the mutex tables agree with the mutexes: mutex_available[m] = 1
\* exactly when m is free, mutex_allocated[t][m] = 1 exactly when t holds m,
\* mutex_need[t][m] = 1 exactly when t is queued on m, and
\* mutex_available[m] plus the sum of mutex_allocated[t][m] is 1.
C25_TablesAgree ==
    \A m \in Mids :
        HasMutex(m) =>
            /\ (At(mutex_available, m) = 1) <=> ~At(mutex_list, m).locked
            /\ \A t \in Tids :
                   /\ (At(mutex_allocated[t], m) = 1)
                          <=> (At(mutex_holder, m) = t)
                   /\ (At(mutex_need[t], m) = 1)
                          <=> (t \in Queued(At(mutex_list, m)))
            /\ At(mutex_available, m) + SumAllocated(Tids, m) = 1

\* The lowest index (0-based) of an empty slot of the list, or the length
\* of the list when no slot is empty.
LowestEmpty(list) ==
    LET empty == {i \in 0 .. (Len(list) - 1) : ~At(list, i).some}
    IN  IF empty = {} THEN Len(list) ELSE MinOf(empty)

\* The step took the tables from <<av, al, nd>> to <<av2, al2, nd2>> as a
\* create of resource id does: the rows have a zero entry for id, the
\* entries of the other ids are what they were, and every row is as long
\* as Available.
Grown(av, al, nd, av2, al2, nd2, id) ==
    /\ id < Len(av2)
    /\ \A t \in Tids :
           /\ Len(al2[t]) = Len(av2) /\ Len(nd2[t]) = Len(av2)
           /\ At(al2[t], id) = 0 /\ At(nd2[t], id) = 0
    /\ \A j \in 0 .. (Len(av) - 1) :
           j # id => /\ At(av2, j) = At(av, j)
                     /\ \A t \in Tids : /\ At(al2[t], j) = At(al[t], j)
                                        /\ At(nd2[t], j) = At(nd[t], j)

\* C26: mutex_create and semaphore_create return the lowest index whose
\* slot is empty, or the previous length of the list; afterwards Available
\* holds 1 (mutex) or the given count (semaphore) for the new id, every
\* row of Need and Allocation holds 0 for it, the entries of the other ids
\* are unchanged and every row is as long as Available.  (The given count
\* is the count of the semaphore made: Semaphore::new(res_count).)
C26_CreateTables ==
    [][/\ (sync_last'.op = "mutex_create" /\ mutex_list' # mutex_list) =>
              LET id == sync_last'.val
              IN  /\ id = LowestEmpty(mutex_list)
                  /\ Grown(mutex_available, mutex_allocated, mutex_need,
                           mutex_available', mutex_allocated', mutex_need',
                           id)
                  /\ At(mutex_available', id) = 1
       /\ (sync_last'.op = "semaphore_create"
              /\ semaphore_list' # semaphore_list) =>
              LET id == sync_last'.val
              IN  /\ id = LowestEmpty(semaphore_list)
                  /\ Grown(sem_available, sem_allocated, sem_need,
                           sem_available', sem_allocated', sem_need', id)
                  /\ At(semaphore_list', id).high = 0
                  /\ At(sem_available', id) = At(semaphore_list', id).count
      ]_vars

=============================================================================
